---- MODULE Spec2Model ----
(***************************************************************************)
(* WY MovieBox: the application state (catalog, preferences, favorites,    *)
(* session, the parts of the page the handlers read back) and the command  *)
(* handlers of the two builds of the script kept in the repository:        *)
(*   build "A" : src/unnamed/part_000 (ids generated at load, alerts)      *)
(*   build "B" : src/script.js        (ids taken from the JSON document)   *)
(***************************************************************************)
EXTENDS Integers, Sequences, FiniteSets, TLC

VARIABLES
    build,                \* which of the two scripts the page loads
    file,                 \* what fetch('videos_photos.json') will answer
    phase,                \* "dead", "boot", "fetching", "ready", "failed"
    videos,               \* let videos = {}
    translations,         \* let translations = {} (the language codes it has)
    favorites,            \* let favorites = []
    currentPlayingMovie,  \* let currentPlayingMovie = null
    currentSettings,      \* let currentSettings = {}
    storage,              \* localStorage: userSettings, favorites, localUserId
    userId,               \* let userId
    dom,                  \* the page state the handlers write and read back
    alert,                \* what the custom alert modal shows
    writable,             \* whether localStorage.setItem succeeds (quota, private mode)
    window                \* globals other scripts of the page define: window.auth, window.db

vars == <<build, file, phase, videos, translations, favorites,
          currentPlayingMovie, currentSettings, storage, userId, dom, alert, writable, window>>

----------------------------------------------------------------------------
(* Bounds of the model *)

MaxLen == 11          \* longest category of the catalogs of SpecCatalog
MaxIndexKey == 12     \* category names "0".."12" are recognised as integer keys
MaxStoredFav == 2     \* longest favorites array found in storage at startup

(* Program constant *)
TrendingCount == 10

----------------------------------------------------------------------------
(* Sequences *)

Range(s) == {s[i] : i \in 1..Len(s)}

Contains(s, x) == \E i \in 1..Len(s) : s[i] = x

NoDuplicates(s) == \A i, j \in 1..Len(s) : s[i] = s[j] => i = j

\* Array.prototype.indexOf, one-based; 0 when absent (JavaScript's -1)
IndexOf(s, x) == IF Contains(s, x)
                 THEN CHOOSE i \in 1..Len(s) : s[i] = x /\ \A j \in 1..(i-1) : s[j] # x
                 ELSE 0

\* Array.prototype.splice(index, 1)
Splice1(s, i) == SubSeq(s, 1, i-1) \o SubSeq(s, i+1, Len(s))

\* Array.prototype.filter(id => id !== x)
FilterOut(s, x) == SelectSeq(s, LAMBDA e : e # x)

\* slice(0, n) written for slice(-n)
SliceLast_first(s, n) == IF Len(s) <= n THEN s ELSE SubSeq(s, 1, n)

\* Array.prototype.slice(-n)
SliceLast(s, n) == IF Len(s) <= n THEN s ELSE SubSeq(s, Len(s) - n + 1, Len(s))

RECURSIVE Flatten(_)
Flatten(ss) == IF ss = <<>> THEN <<>> ELSE Head(ss) \o Flatten(Tail(ss))

----------------------------------------------------------------------------
(* JavaScript values *)

Undefined == "<undefined>"          \* the value undefined, where an id or a language is read
null == [isNull |-> TRUE]           \* currentPlayingMovie = null

\* Objects with string keys: a function from the keys present to their values
EmptyObject == [k \in {} |-> ""]
Spread(a, b) == [k \in (DOMAIN a) \cup (DOMAIN b) |-> IF k \in DOMAIN b THEN b[k] ELSE a[k]]
Get(o, k) == IF k \in DOMAIN o THEN o[k] ELSE Undefined

defaultSettings == [language |-> "myanmar", theme |-> "dark", name |-> "", email |-> ""]

----------------------------------------------------------------------------
(* localStorage items and JSON text.  An item is absent (getItem gives      *)
(* null) or a string; a string is JSON text of some value, or not JSON.     *)

NoItem == [kind |-> "absent"]
EmptyString == [kind |-> "text", json |-> FALSE, raw |-> ""]
Garbage == [kind |-> "text", json |-> FALSE, raw |-> "{oops"]
PlainString(s) == [kind |-> "text", json |-> FALSE, raw |-> s]

JArr(items) == [t |-> "array", items |-> items]
JObj(fields) == [t |-> "object", fields |-> fields]
JNull == [t |-> "null"]
JNum == [t |-> "number", n |-> 5]

\* JSON.stringify(v): the text of v
JSONstringify(v) == [kind |-> "text", json |-> TRUE, val |-> v]

\* JSON.parse(item): the value, or a SyntaxError
JSONparse(item) == IF item.kind = "text" /\ item.json
                   THEN [threw |-> FALSE, val |-> item.val]
                   ELSE [threw |-> TRUE]

\* if (stored): null and the empty string are falsy
Truthy(item) == item.kind = "text" /\ (item.json \/ item.raw # "")

\* the own enumerable properties an object spread copies out of a parsed value
OwnProps(v) == IF v.t = "object" THEN v.fields
               ELSE IF v.t = "array"
                    THEN [k \in {ToString(i - 1) : i \in 1..Len(v.items)} |->
                            v.items[CHOOSE i \in 1..Len(v.items) : ToString(i - 1) = k]]
                    ELSE EmptyObject

----------------------------------------------------------------------------
(* The catalog: a JavaScript object from category name to an array of      *)
(* movies.  order is the order the keys were created in (the order of the  *)
(* JSON document); a movie's cat and idx say which object of the parsed    *)
(* document it is.                                                         *)

EmptyCatalog == [order |-> <<>>, at |-> EmptyObject]

RawMovies(c, n, own) ==
    [i \in 1..n |-> [cat |-> c, idx |-> i - 1, title |-> c \o ":" \o ToString(i - 1),
                     id |-> IF own THEN c \o "-" \o ToString(i - 1) ELSE Undefined]]

MakeCatalog(names, lens, own) ==
    [order |-> names,
     at |-> [c \in Range(names) |-> RawMovies(c, lens[IndexOf(names, c)], own)]]

\* for (const category in videos): integer keys first, ascending, then the
\* other keys in creation order
IndexKeyNames == {ToString(n) : n \in 0..MaxIndexKey}
IsArrayIndex(k) == k \in IndexKeyNames
KeyNumber(k) == CHOOSE n \in 0..MaxIndexKey : k = ToString(n)

RECURSIVE Ascending(_)
Ascending(S) == IF S = {} THEN <<>>
                ELSE LET m == CHOOSE k \in S : \A j \in S : KeyNumber(k) <= KeyNumber(j)
                     IN <<m>> \o Ascending(S \ {m})

ForInKeys(o) == Ascending({k \in Range(o.order) : IsArrayIndex(k)})
                \o SelectSeq(o.order, LAMBDA k : ~IsArrayIndex(k))

\* `${category}-${index + 1}`: ids counted from one
VideoId_oneBased(category, index) == category \o "-" \o ToString(index + 1)

\* `${category}-${index}`
VideoId(category, index) == category \o "-" \o ToString(index)

generateVideoIds(v) ==
    [v EXCEPT !.at = [c \in DOMAIN v.at |->
        [i \in 1..Len(v.at[c]) |-> [v.at[c][i] EXCEPT !.id = VideoId(c, i - 1)]]]]

\* videos[category].find(m => m.id === id)
Find(ms, id) == LET hit == SelectSeq(ms, LAMBDA m : m.id = id)
                IN IF hit = <<>> THEN null ELSE Head(hit)

\* return inside the loop whatever find gave: only the first category is searched
FindInCategories_firstOnly(v, keys, id) ==
    IF keys = <<>> THEN null ELSE Find(v.at[Head(keys)], id)

RECURSIVE FindInCategories(_, _, _)
FindInCategories(v, keys, id) ==
    IF keys = <<>> THEN null
    ELSE LET movie == Find(v.at[Head(keys)], id)
         IN IF movie # null THEN movie ELSE FindInCategories(v, Tail(keys), id)

findMovieById(v, id) == FindInCategories(v, ForInKeys(v), id)

\* allMovies = allMovies.concat(videos[category]) for every category
AllMovies(v) == LET keys == ForInKeys(v)
                IN Flatten([i \in 1..Len(keys) |-> v.at[keys[i]]])

TrendingMovies(v) == SliceLast(AllMovies(v), TrendingCount)

----------------------------------------------------------------------------
(* The page.  dom.nav is the nav button carrying text-primary, dom.cat the *)
(* menu button carrying active-category, dom.movies the #movies region,    *)
(* dom.theme the theme classes on body, header and nav bar, dom.lang the   *)
(* language table the texts were last taken from.                          *)

None == "none"
NavValues == {"home", "trending", "favorites", "profile"}
\* the data-nav values a button handed to changeNav may carry: the four of the
\* switch and one it has no case for
NavTargets == NavValues \cup {"settings"}
MenuCategories == {"action", "drama"}     \* the .menu-btn buttons of the page
Cleared == [kind |-> "empty", cards |-> <<>>]

InitialDom == [nav |-> None, cat |-> None, playerHidden |-> FALSE, movies |-> Cleared,
               theme |-> None, lang |-> None]

\* const t = translations[currentSettings.language] || translations.english
HasT(trans, settings) == Get(settings, "language") \in trans \/ "english" \in trans

createMovieCard(movie, favs) ==
    [id |-> movie.id, title |-> movie.title, fav |-> Contains(favs, movie.id)]

Cards(ms, favs) == [i \in 1..Len(ms) |-> createMovieCard(ms[i], favs)]

\* Each renderer gives the page it leaves and whether it threw a TypeError
\* (reading a property of an undefined t).  ctx = [videos, trans, favs].
showCategory(ctx, settings, d, category) ==
    LET s1 == IF build = "B" THEN Spread(settings, [category |-> category]) ELSE settings
        d1 == [d EXCEPT !.cat = category, !.movies = Cleared]
        list == IF category \in DOMAIN ctx.videos.at THEN ctx.videos.at[category] ELSE <<>>
    IN IF ~HasT(ctx.trans, s1)
       THEN [threw |-> TRUE, dom |-> d1, settings |-> s1]
       ELSE [threw |-> FALSE, settings |-> s1,
             dom |-> [d1 EXCEPT !.movies = [kind |-> "category", cards |-> Cards(list, ctx.favs)]]]

displayTrending(ctx, settings, d) ==
    IF ~HasT(ctx.trans, settings)
    THEN [threw |-> TRUE, settings |-> settings, dom |-> [d EXCEPT !.movies = Cleared]]
    ELSE [threw |-> FALSE, settings |-> settings,
          dom |-> [d EXCEPT !.movies = [kind |-> "trending",
                                        cards |-> Cards(TrendingMovies(ctx.videos), ctx.favs)]]]

\* favorites.forEach(movieId => { const movie = findMovieById(movieId); if (movie) ... })
FavoriteMovies(v, favs) ==
    LET found == [i \in 1..Len(favs) |-> findMovieById(v, favs[i])]
    IN SelectSeq(found, LAMBDA m : m # null)

displayFavorites(ctx, settings, d) ==
    IF ~HasT(ctx.trans, settings)
    THEN [threw |-> TRUE, settings |-> settings, dom |-> [d EXCEPT !.movies = Cleared]]
    ELSE [threw |-> FALSE, settings |-> settings,
          dom |-> [d EXCEPT !.movies = [kind |-> "favorites",
                                        cards |-> Cards(FavoriteMovies(ctx.videos, ctx.favs), ctx.favs)]]]

displayProfileSettings(ctx, settings, d) ==
    IF ~HasT(ctx.trans, settings)
    THEN [threw |-> TRUE, settings |-> settings, dom |-> d]
    ELSE [threw |-> FALSE, settings |-> settings,
          dom |-> [d EXCEPT !.movies = [kind |-> "profile", cards |-> <<>>]]]

\* the home case taking the "action" button whatever button is marked active
changeNav_alwaysAction(ctx, settings, d, nav) ==
    LET d1 == [d EXCEPT !.nav = nav, !.movies = Cleared]
    IN CASE nav = "home" ->
              showCategory(ctx, settings, [d1 EXCEPT !.playerHidden = FALSE], "action")
         [] nav = "trending" ->
              displayTrending(ctx, settings, [d1 EXCEPT !.playerHidden = FALSE])
         [] nav = "favorites" ->
              displayFavorites(ctx, settings, [d1 EXCEPT !.playerHidden = FALSE])
         [] nav = "profile" ->
              displayProfileSettings(ctx, settings, [d1 EXCEPT !.playerHidden = TRUE])
         [] OTHER -> [threw |-> FALSE, settings |-> settings, dom |-> d1]

changeNav(ctx, settings, d, nav) ==
    LET d1 == [d EXCEPT !.nav = nav, !.movies = Cleared]
    IN CASE nav = "home" ->
              LET d2 == [d1 EXCEPT !.playerHidden = FALSE]
                  category == IF d2.cat # None THEN d2.cat ELSE "action"
              IN IF category \in MenuCategories
                 THEN showCategory(ctx, settings, d2, category)
                 ELSE [threw |-> FALSE, settings |-> settings, dom |-> d2]
         [] nav = "trending" ->
              displayTrending(ctx, settings, [d1 EXCEPT !.playerHidden = FALSE])
         [] nav = "favorites" ->
              displayFavorites(ctx, settings, [d1 EXCEPT !.playerHidden = FALSE])
         [] nav = "profile" ->
              displayProfileSettings(ctx, settings, [d1 EXCEPT !.playerHidden = TRUE])
         [] OTHER -> [threw |-> FALSE, settings |-> settings, dom |-> d1]

\* const isLight = theme === 'light'; classList.toggle(..., isLight)
RenderedTheme(settings) == IF Get(settings, "theme") = "light" THEN "light" ELSE "dark"

\* the table t names: translations[language] || translations.english
RenderedLanguage(trans, settings) ==
    IF Get(settings, "language") \in trans THEN Get(settings, "language") ELSE "english"

\* the theme classes are set first; applyLanguage then reads t.title and throws
\* when t is undefined; the active view is rendered again last
applySettings(ctx, settings, d) ==
    LET themed == [d EXCEPT !.theme = RenderedTheme(settings)]
        said == [themed EXCEPT !.lang = RenderedLanguage(ctx.trans, settings)]
    IN IF ~HasT(ctx.trans, settings)
       THEN [threw |-> TRUE, settings |-> settings, dom |-> themed]
       ELSE CASE d.nav = "home" ->
                   IF d.cat # None THEN showCategory(ctx, settings, said, d.cat)
                   ELSE [threw |-> FALSE, settings |-> settings, dom |-> said]
              [] d.nav = "trending" -> displayTrending(ctx, settings, said)
              [] d.nav = "favorites" -> displayFavorites(ctx, settings, said)
              [] d.nav = "profile" -> displayProfileSettings(ctx, settings, said)
              [] OTHER -> [threw |-> FALSE, settings |-> settings, dom |-> said]

----------------------------------------------------------------------------
(* Startup state read from storage *)

\* the spread written the other way round: { ...JSON.parse(storedSettings), ...defaultSettings }
loadSettings_defaultsOver(item) ==
    IF ~Truthy(item) THEN defaultSettings
    ELSE LET parsed == JSONparse(item)
         IN IF parsed.threw THEN defaultSettings
            ELSE Spread(OwnProps(parsed.val), defaultSettings)

\* currentSettings = { ...defaultSettings, ...JSON.parse(storedSettings) }
loadSettings(item) ==
    IF ~Truthy(item) THEN defaultSettings
    ELSE LET parsed == JSONparse(item)
         IN IF parsed.threw THEN defaultSettings
            ELSE Spread(defaultSettings, OwnProps(parsed.val))

\* favorites = JSON.parse(storedFavorites); if (!Array.isArray(favorites)) favorites = []
loadFavorites(item) ==
    IF ~Truthy(item) THEN <<>>
    ELSE LET parsed == JSONparse(item)
         IN IF parsed.threw THEN <<>>
            ELSE IF parsed.val.t = "array" THEN parsed.val.items ELSE <<>>

\* data.videos / data.translations when the fetch answers, the empty objects kept otherwise
loadDataFromJSON(f) ==
    IF f.ok THEN [videos |-> f.videos, translations |-> f.translations]
    ELSE [videos |-> videos, translations |-> translations]

----------------------------------------------------------------------------
(* Favorites *)

\* no early return, the id read as currentPlayingMovie?.id
toggledFavorites_noGuard(movie, favs) ==
    LET id == IF movie = null THEN Undefined ELSE movie.id
    IN IF Contains(favs, id) THEN FilterOut(favs, id) ELSE Append(favs, id)

\* the early return, then indexOf/splice (build A) or includes/filter (build B), or push
toggledFavorites(movie, favs) ==
    IF movie = null THEN favs
    ELSE IF build = "A"
         THEN IF IndexOf(favs, movie.id) > 0
              THEN Splice1(favs, IndexOf(favs, movie.id))
              ELSE Append(favs, movie.id)
         ELSE IF ~Contains(favs, movie.id)
              THEN Append(favs, movie.id)
              ELSE FilterOut(favs, movie.id)

\* localStorage.setItem('favorites', JSON.stringify(favorites)), a failed write swallowed
saveFavoritesToLocalStorage(st, favs, ok) ==
    IF ok THEN [st EXCEPT !.favorites = JSONstringify(JArr(favs))] ELSE st

----------------------------------------------------------------------------
(* What the environment supplies: the JSON document and the storage found  *)
(* at startup                                                              *)

DocTranslations == {{"myanmar", "english"}, {"myanmar"}, {}}

DocCatalogs == {MakeCatalog(<<"action", "drama">>, <<1, 1>>, own) : own \in BOOLEAN}

BaseFile == [ok |-> TRUE, videos |-> MakeCatalog(<<"action", "drama">>, <<1, 1>>, TRUE),
             translations |-> {"myanmar", "english"}]

Files == {[ok |-> FALSE]}
         \cup {[ok |-> TRUE, videos |-> c, translations |-> tr] :
                  c \in DocCatalogs, tr \in DocTranslations}

StoredIds == {"action-0", "gone-9"}

StoredArrays ==
    {JSONstringify(JArr(a)) : a \in UNION {[1..n -> StoredIds] : n \in 0..MaxStoredFav}}

StoredFavorites ==
    {NoItem, EmptyString, Garbage, JSONstringify(JNull), JSONstringify(JObj(EmptyObject))}
    \cup StoredArrays

StoredObjects ==
    {JSONstringify(JObj([language |-> "english"])),
     JSONstringify(JObj([language |-> "french", theme |-> "light", name |-> "Aye", email |-> "a@b.c"]))}

StoredSettings ==
    {NoItem, EmptyString, Garbage, JSONstringify(JNum), JSONstringify(JNull),
     JSONstringify(JArr(<<"action-0">>))}
    \cup StoredObjects

StoredUserIds == {NoItem, EmptyString, PlainString("u-stored")}

FreshUUID == "u-fresh"        \* crypto.randomUUID()

\* what the page's other scripts have put on window when the script runs: a
\* signed-in Firebase user (auth is its uid, None without one) and window.db
PlainWindow == [auth |-> None, db |-> FALSE]
Windows == [auth : {None, "u-firebase"}, db : BOOLEAN]

FormValues ==
    {[language |-> "english", theme |-> "light", name |-> "", email |-> ""],
     [language |-> "english", theme |-> "dark", name |-> "Aye", email |-> "a@b.c"],
     [language |-> "myanmar", theme |-> "light", name |-> "Aye", email |-> ""],
     [language |-> "myanmar", theme |-> "dark", name |-> "", email |-> "a@b.c"]}

\* ids a caller of playVideo may pass: those of the document's positions, one
\* past the end of each category, and one of no category
PlayIds == {"missing-99"}
           \cup (IF file.ok
                 THEN UNION {{VideoId(c, i) : i \in 0..Len(file.videos.at[c])} :
                                c \in Range(file.videos.order)}
                 ELSE {})

----------------------------------------------------------------------------
(* The state once the script has been evaluated *)

\* let userId = localStorage.getItem('localUserId') || crypto.randomUUID();
\* if (localStorage.getItem('localUserId') === null) localStorage.setItem(...)
\* The setItem is not in a try: when it throws, the evaluation of the script
\* ends there and no handler is ever defined (phase "dead").
InitWith(files, settingsItems, favoritesItems, userItems) ==
    /\ build \in {"A", "B"}
    /\ file \in files
    /\ writable \in BOOLEAN
    /\ window \in Windows
    /\ videos = EmptyCatalog
    /\ translations = {}
    /\ favorites = <<>>
    /\ currentPlayingMovie = null
    /\ currentSettings = EmptyObject
    /\ \E us \in settingsItems, fv \in favoritesItems, uid \in userItems :
          /\ userId = IF Truthy(uid) THEN uid.raw ELSE FreshUUID
          /\ storage = [userSettings |-> us, favorites |-> fv,
                        localUserId |-> IF uid = NoItem /\ writable
                                        THEN PlainString(userId) ELSE uid]
    /\ phase = IF storage.localUserId = NoItem THEN "dead" ELSE "boot"
    /\ dom = InitialDom
    /\ alert = None

\* how many of the environment's choices differ from the plain case
Unusual == (IF file # BaseFile THEN 1 ELSE 0)
           + (IF storage.userSettings # NoItem THEN 1 ELSE 0)
           + (IF storage.favorites # NoItem THEN 1 ELSE 0)
           + (IF ~writable THEN 1 ELSE 0)
           + (IF window.auth # None THEN 1 ELSE 0)

Init == /\ InitWith(Files, {NoItem} \cup StoredObjects, {NoItem} \cup StoredArrays,
                    {NoItem, PlainString("u-stored")})
        /\ Unusual <= 1
        /\ (storage.localUserId = PlainString("u-stored")) = ~writable
        /\ ~window.db
        /\ (window.auth # None => build = "A")      \* script.js never reads window.auth

----------------------------------------------------------------------------
(* Startup *)

Ctx(v, tr, favs) == [videos |-> v, trans |-> tr, favs |-> favs]

\* the script was evaluated to its end, so the handlers exist
Alive == phase # "dead"

\* build A: if (window.auth && window.auth.currentUser) userId = window.auth.currentUser.uid
signedInUser(w, current) == IF build = "A" /\ w.auth # None THEN w.auth ELSE current

\* initializeApp is called (build A: by the page; build B: by the
\* DOMContentLoaded listener) and waits for the fetch
initializeApp_call ==
    /\ phase = "boot"
    /\ phase' = "fetching"
    /\ UNCHANGED <<build, file, videos, translations, favorites, currentPlayingMovie,
                   currentSettings, storage, userId, dom, alert, writable, window>>

\* the fetch has answered; the rest of initializeApp runs without interruption
initializeApp ==
    /\ phase = "fetching"
    /\ LET data == loadDataFromJSON(file)
           vids == IF build = "A" THEN generateVideoIds(data.videos) ELSE data.videos
           settings == loadSettings(storage.userSettings)
           favs == loadFavorites(storage.favorites)
           ctx == Ctx(vids, data.translations, favs)
           applied == applySettings(ctx, settings, dom)
           home == changeNav(ctx, applied.settings, applied.dom, "home")
           done == IF applied.threw THEN applied ELSE home
       IN /\ videos' = vids
          /\ translations' = data.translations
          /\ currentSettings' = done.settings
          /\ favorites' = favs
          /\ dom' = done.dom
          /\ alert' = IF ~file.ok /\ build = "A" THEN "Error:json" ELSE alert
          /\ phase' = IF done.threw THEN "failed" ELSE "ready"
          /\ userId' = signedInUser(window, userId)
    /\ UNCHANGED <<build, file, currentPlayingMovie, storage, writable, window>>

----------------------------------------------------------------------------
(* Commands.  The handlers are globals of the page from the moment the     *)
(* script has been evaluated.                                              *)

\* window.changeNav(btn), btn a button whose data-nav is nav
clickNav(nav) ==
    /\ Alive
    /\ LET r == changeNav(Ctx(videos, translations, favorites), currentSettings, dom, nav)
       IN /\ dom' = r.dom
          /\ currentSettings' = r.settings
    /\ UNCHANGED <<build, file, phase, videos, translations, favorites,
                   currentPlayingMovie, storage, userId, alert, writable, window>>

\* window.showCategory(category, btn), btn one of the menu buttons
clickCategory(category) ==
    /\ Alive
    /\ LET r == showCategory(Ctx(videos, translations, favorites), currentSettings, dom, category)
       IN /\ dom' = r.dom
          /\ currentSettings' = r.settings
    /\ UNCHANGED <<build, file, phase, videos, translations, favorites,
                   currentPlayingMovie, storage, userId, alert, writable, window>>

\* currentPlayingMovie = movie assigned before the test of movie
playedMovie_unguarded(current, movie) == movie

\* if (movie) { currentPlayingMovie = movie; ... }
playedMovie(current, movie) == IF movie # null THEN movie ELSE current

\* window.playVideo(event, movieId)
playVideo(movieId) ==
    /\ Alive
    /\ UNCHANGED <<dom, favorites, currentSettings, storage, phase, videos, translations,
                   userId, writable, window, build, file>>
    /\ LET movie == findMovieById(videos, movieId)
       IN /\ currentPlayingMovie' = playedMovie(currentPlayingMovie, movie)
          /\ alert' = IF movie = null /\ build = "A" THEN "Error:notfound" ELSE alert

\* window.toggleFavorite()
toggleFavorite ==
    /\ Alive
    /\ LET favs == toggledFavorites(currentPlayingMovie, favorites)
           shown == displayFavorites(Ctx(videos, translations, favs), currentSettings, dom)
       IN IF currentPlayingMovie = null
          THEN /\ favorites' = favs
               /\ alert' = IF build = "A" /\ HasT(translations, currentSettings)
                           THEN "Favorite:select" ELSE alert
               /\ UNCHANGED <<build, file, phase, videos, translations, currentPlayingMovie,
                              currentSettings, storage, userId, dom, writable, window>>
          ELSE /\ favorites' = favs
               /\ storage' = saveFavoritesToLocalStorage(storage, favs, writable)
               /\ alert' = IF build = "B" THEN alert
                           ELSE IF Contains(favorites, currentPlayingMovie.id)
                                THEN "Favorite:removed" ELSE "Favorite:added"
               /\ dom' = IF dom.nav = "favorites" THEN shown.dom ELSE dom
               /\ UNCHANGED <<build, file, phase, videos, translations, currentPlayingMovie,
                              currentSettings, userId, writable, window>>

\* what saveSettings leaves when the form is on the page: setItem first, inside
\* the try; a throw of setItem, applySettings, changeNav or of the read of
\* translations[currentSettings.language].saveSettings ends in the catch
savedSettings(form) ==
    LET merged == Spread(currentSettings, form)
        ctx == Ctx(videos, translations, favorites)
        applied == applySettings(ctx, merged, dom)
        home == changeNav(ctx, applied.settings, applied.dom, "home")
        done == IF applied.threw THEN applied ELSE home
        caught == done.threw \/ form.language \notin translations
    IN IF ~writable
       THEN [storage |-> storage, settings |-> currentSettings, dom |-> dom,
             alert |-> IF build = "A" THEN "Error:save" ELSE alert]
       ELSE [storage |-> [storage EXCEPT !.userSettings = JSONstringify(JObj(form))],
             settings |-> done.settings, dom |-> done.dom,
             alert |-> IF build = "B" THEN alert
                       ELSE IF caught THEN "Error:save" ELSE "saved"]

\* the settings form is in the page: displayProfileSettings wrote it last
FormShown == dom.movies.kind = "profile"

\* window.saveSettings(), the form holding form; without the form the read of
\* .value throws before anything is written
saveSettings(form) ==
    /\ Alive
    /\ LET r == savedSettings(form)
       IN IF ~FormShown
          THEN UNCHANGED vars
          ELSE /\ storage' = r.storage
               /\ currentSettings' = r.settings
               /\ dom' = r.dom
               /\ alert' = r.alert
               /\ UNCHANGED <<build, file, phase, videos, translations, favorites,
                              currentPlayingMovie, userId, writable, window>>

Next ==
    \/ initializeApp_call
    \/ initializeApp
    \/ \E nav \in NavTargets : clickNav(nav)
    \/ \E category \in MenuCategories : clickCategory(category)
    \/ \E movieId \in PlayIds : playVideo(movieId)
    \/ toggleFavorite
    \/ \E form \in FormValues : saveSettings(form)

Spec == Init /\ [][Next]_vars

----------------------------------------------------------------------------
(* The catalog functions over a wide range of documents; storage is empty  *)
(* and only the commands that read the catalog are issued.                 *)

CatalogNames == {"action", "a", "a-1", "7"}
LenChoices == {0, 2, MaxLen - 3, MaxLen}

CatalogShapes == {<<n>> : n \in CatalogNames}
                 \cup {<<p[1], p[2]>> : p \in {q \in CatalogNames \X CatalogNames : q[1] # q[2]}}

ExampleCatalog(own) == MakeCatalog(<<"action", "drama">>, <<2, 1>>, own)

WideCatalogs(own) ==
    {ExampleCatalog(own)}
    \cup UNION {{MakeCatalog(names, lens, own) : lens \in [1..Len(names) -> LenChoices]} :
                   names \in CatalogShapes}

InitCatalog ==
    /\ InitWith({[ok |-> TRUE, videos |-> c, translations |-> {"myanmar", "english"}] :
                    c \in WideCatalogs(FALSE) \cup WideCatalogs(TRUE)},
                {NoItem}, {NoItem}, {NoItem})
    /\ writable
    /\ window = PlainWindow
    /\ file.videos \in WideCatalogs(build = "B")   \* build B gets the document that carries ids

NextCatalog ==
    \/ initializeApp_call
    \/ initializeApp
    \/ \E nav \in {"home", "trending"} : clickNav(nav)
    \/ \E movieId \in PlayIds : playVideo(movieId)

SpecCatalog == InitCatalog /\ [][NextCatalog]_vars

(* Startup over a wide range of storage contents *)

InitLoad == /\ InitWith(Files, StoredSettings, StoredFavorites, {NoItem, PlainString("u-stored")})
            /\ window = PlainWindow

NextLoad == initializeApp_call \/ initializeApp

SpecLoad == InitLoad /\ [][NextLoad]_vars

----------------------------------------------------------------------------
(* Startup with no caller of initializeApp other than the script itself:   *)
(* the page fires DOMContentLoaded, and whatever listener the script has   *)
(* registered runs.                                                        *)

\* typeof window.initializeApp where the closing block of build A tests it: the
\* assignment window.initializeApp = async function() {...} has run before
typeofInitializeApp == "function"

\* whether evaluating the script registered a DOMContentLoaded listener:
\* build A only inside if (typeof window.initializeApp === 'undefined'),
\* build B unconditionally
ListenerRegistered == IF build = "A" THEN typeofInitializeApp = "undefined" ELSE TRUE

\* what the listener does: build A calls initializeApp unless window.db is
\* set, build B loads the data and calls initializeApp
ListenerStarts == build = "B" \/ ~window.db

\* the DOMContentLoaded event
DOMContentLoaded ==
    /\ phase = "boot"
    /\ phase' = IF ListenerRegistered /\ ListenerStarts THEN "fetching" ELSE phase
    /\ UNCHANGED <<build, file, videos, translations, favorites, currentPlayingMovie,
                   currentSettings, storage, userId, dom, alert, writable, window>>

InitUnaided ==
    /\ InitWith({BaseFile}, {NoItem}, {NoItem}, {NoItem})
    /\ writable
    /\ window.auth = None

NextUnaided ==
    \/ DOMContentLoaded
    \/ initializeApp
    \/ \E nav \in NavValues : clickNav(nav)
    \/ \E category \in MenuCategories : clickCategory(category)
    \/ \E movieId \in PlayIds : playVideo(movieId)
    \/ toggleFavorite

\* the event is delivered, and a pending fetch is answered
SpecUnaided ==
    InitUnaided /\ [][NextUnaided]_vars /\ WF_vars(DOMContentLoaded) /\ WF_vars(initializeApp)

----------------------------------------------------------------------------
(* Properties *)

Loaded == phase \in {"ready", "failed"}

\* the four fields of Preferences, as currentSettings holds them
Preferences(settings) ==
    [f \in {"language", "theme", "name", "email"} |-> Get(settings, f)]

\* the positions of the catalog, and the ids its movies carry
Positions(v) == UNION {{<<c, i>> : i \in 1..Len(v.at[c])} : c \in DOMAIN v.at}
Carries(v, id) == \E p \in Positions(v) : v.at[p[1]][p[2]].id = id

\* a toggleFavorite step taken with a movie playing
ToggleStep == toggleFavorite /\ currentPlayingMovie # null

\* C1: after toggleFavorite, the playing movie's id is gone from favorites if it
\* was there and is the last element if it was not; the other ids keep their
\* membership and their relative order.
C1_ToggleRemovesOrAppends ==
    [][ToggleStep =>
         LET id == currentPlayingMovie.id
         IN /\ Contains(favorites, id) => ~Contains(favorites', id)
            /\ ~Contains(favorites, id) =>
                  /\ favorites' # <<>>
                  /\ favorites'[Len(favorites')] = id
            /\ FilterOut(favorites', id) = FilterOut(favorites, id)]_vars

\* C2: two toggleFavorite calls in immediate succession restore the set of
\* favorite ids, and the state in between differs from it in exactly the
\* membership of the playing movie's id.
C2_ToggleTwiceRestores ==
    [][ToggleStep =>
         LET id == currentPlayingMovie.id
             between == favorites'
             after == toggledFavorites(currentPlayingMovie', between)
         IN /\ Range(after) = Range(favorites)
            /\ Range(between) \ {id} = Range(favorites) \ {id}
            /\ (id \in Range(between)) # (id \in Range(favorites))]_vars

\* C3: after every toggleFavorite that changes favorites, the text stored under
\* 'favorites' decodes to exactly the in-memory favorites, whether the write
\* succeeded or failed.
C3_FavoritesPersisted ==
    [][ToggleStep =>
         LET parsed == JSONparse(storage'.favorites)
         IN /\ Truthy(storage'.favorites)
            /\ ~parsed.threw
            /\ parsed.val = JArr(favorites')]_vars

\* C4: once initialization has run, favorites holds no id twice.
C4_FavoritesIsASet == Loaded => NoDuplicates(favorites)

\* C5: toggleFavorite with no movie playing changes neither favorites, nor
\* storage, nor the preferences, nor the active nav, nor the playing movie.
C5_ToggleWithoutMovie ==
    [][(toggleFavorite /\ currentPlayingMovie = null) =>
         /\ favorites' = favorites
         /\ storage' = storage
         /\ currentSettings' = currentSettings
         /\ dom'.nav = dom.nav
         /\ currentPlayingMovie' = null]_vars

\* C5 witness: the notice of a toggle without a movie is showing, after startup
C5_Witness == Loaded /\ alert = "Favorite:select" /\ currentPlayingMovie = null

\* C6: playVideo with an id no catalog movie carries leaves the playing movie,
\* favorites and the nav as they were; with an id a movie carries, the playing
\* movie becomes the catalog movie with that id.
C6_PlayVideo ==
    [][\A movieId \in PlayIds :
          playVideo(movieId) =>
             IF Carries(videos, movieId)
             THEN \E p \in Positions(videos) :
                     /\ videos.at[p[1]][p[2]].id = movieId
                     /\ currentPlayingMovie' = videos.at[p[1]][p[2]]
             ELSE /\ currentPlayingMovie' = currentPlayingMovie
                  /\ favorites' = favorites
                  /\ dom'.nav = dom.nav]_vars

\* C6 witness: a movie is playing and a later playVideo has reported an id not found
C6_Witness ==
    /\ currentPlayingMovie # null
    /\ alert = "Error:notfound"
    /\ dom.nav = "trending"

\* the catalog's movies concatenated in the order of the JSON document's keys
DocumentOrderMovies(v) == Flatten([i \in 1..Len(v.order) |-> v.at[v.order[i]]])

\* the cards are the last TrendingCount movies of all, or all of them if fewer
ShowsLastOf(cards, all) ==
    LET n == Len(all)
        k == IF n <= TrendingCount THEN n ELSE TrendingCount
    IN /\ Len(cards) = k
       /\ \A j \in 1..k : /\ cards[j].id = all[n - k + j].id
                          /\ cards[j].title = all[n - k + j].title

\* C7: once ids have been assigned, the movie at zero-based position i of
\* category c has id "c-i", and no two movies of the catalog share an id.
C7_IdsByPositionAndUnique ==
    (Loaded /\ build = "A") =>
       /\ \A p \in Positions(videos) :
             videos.at[p[1]][p[2]].id = p[1] \o "-" \o ToString(p[2] - 1)
       /\ \A p, q \in Positions(videos) :
             videos.at[p[1]][p[2]].id = videos.at[q[1]][q[2]].id => p = q

\* C7 witness: ids assigned in a catalog with the categories "a-1" and "a", the
\* latter long enough for two-digit indexes
C7_Witness ==
    /\ Loaded /\ build = "A"
    /\ videos.order = <<"a-1", "a">>
    /\ Len(videos.at["a"]) = MaxLen
    /\ Len(videos.at["a-1"]) = 2

\* C8: findMovieById gives the movie carrying the id when a catalog movie carries
\* it (under build A: when id assignment produced it for a position of the
\* catalog), and null for every other id.
C8_FindMovieById ==
    Loaded =>
       \A id \in PlayIds \cup Range(videos.order) :
          LET r == findMovieById(videos, id)
              produced == \E p \in Positions(videos) : id = p[1] \o "-" \o ToString(p[2] - 1)
          IN /\ build = "A" => (Carries(videos, id) <=> produced)
             /\ IF Carries(videos, id)
                THEN \E p \in Positions(videos) : r = videos.at[p[1]][p[2]] /\ r.id = id
                ELSE r = null

\* C8 witness: a movie of a category other than the first was found and played,
\* and an id of no movie was reported not found
C8_Witness ==
    /\ Loaded /\ build = "A"
    /\ alert = "Error:notfound"
    /\ currentPlayingMovie # null
    /\ currentPlayingMovie.cat # Head(ForInKeys(videos))

\* C9 as claimed: the trending list is the last 10 entries of the concatenation
\* of the categories in the order of the source JSON document.
C9_TrendingInDocumentOrder ==
    (Loaded /\ dom.movies.kind = "trending") =>
       ShowsLastOf(dom.movies.cards, DocumentOrderMovies(videos))

\* C9 amended: the trending list is the last 10 entries of the concatenation of
\* the categories in for...in order (integer names ascending first, then the
\* other names in document order), and the whole concatenation when it has 10
\* entries or fewer.
C9_TrendingInForInOrder ==
    (Loaded /\ dom.movies.kind = "trending") =>
       ShowsLastOf(dom.movies.cards, AllMovies(videos))

\* C9 witness: trending shown for a catalog of more than 10 movies whose
\* document puts an integer-named category last
C9_Witness ==
    /\ Loaded /\ dom.movies.kind = "trending"
    /\ videos.order = <<"a", "7">>
    /\ Len(videos.at["a"]) = 2
    /\ Len(videos.at["7"]) = MaxLen

\* C10: startup never raises and is never blocked by what storage holds: it
\* completes whenever it completes with empty storage; a missing or unparsable
\* 'userSettings' gives the default preferences, and a missing, unparsable or
\* non-array 'favorites' gives the empty list.
C10_LoadNeverBlocks ==
    [][initializeApp =>
         LET us == storage.userSettings
             fv == storage.favorites
         IN /\ HasT(translations', defaultSettings) => phase' = "ready"
            /\ (~Truthy(us) \/ JSONparse(us).threw) =>
                  Preferences(currentSettings') = defaultSettings
            /\ (~Truthy(fv) \/ JSONparse(fv).threw \/ JSONparse(fv).val.t # "array") =>
                  favorites' = <<>>]_vars

\* C11: when the form is submitted and the write succeeds, a startup load of
\* the text then stored under 'userSettings' gives preferences whose language,
\* theme, name and email are exactly the submitted values, empty name and
\* email included.
C11_SettingsRoundTrip ==
    (Alive /\ writable /\ FormShown) =>
       \A form \in FormValues :
          Preferences(loadSettings(savedSettings(form).storage.userSettings)) = form

\* C11 witness: a form with empty name and email was saved and is what storage
\* holds
C11_Witness ==
    /\ alert = "saved"
    /\ dom.nav = "home"
    /\ storage.userSettings =
          JSONstringify(JObj([language |-> "english", theme |-> "light", name |-> "", email |-> ""]))

\* C12: when the write of 'userSettings' fails, saveSettings leaves the
\* in-memory preferences and the page (theme, language, active nav, view) as
\* they were and shows an error to the user.
C12_FailedSaveKeepsState ==
    (Alive /\ ~writable /\ FormShown) =>
       \A form \in FormValues :
          LET r == savedSettings(form)
          IN /\ r.settings = currentSettings
             /\ r.dom = dom
             /\ r.storage = storage
             /\ r.alert = "Error:save"

\* C13: when the write of 'userSettings' succeeds, saveSettings ends with the
\* home nav active and with the in-memory language, theme, name and email equal
\* to the submitted values.
C13_SavedEndsAtHome ==
    (Alive /\ writable /\ FormShown) =>
       \A form \in FormValues :
          LET r == savedSettings(form)
          IN /\ r.dom.nav = "home"
             /\ Preferences(r.settings) = form

\* C14: after initialization the in-memory preferences are the defaults
\* overlaid with what 'userSettings' stores, in every state: only a persisted
\* save changes them, no navigation, category selection, playVideo or
\* toggleFavorite does.
C14_PreferencesAreStored ==
    Loaded => currentSettings = loadSettings(storage.userSettings)

\* C15: once initialization has completed, one of home, trending, favorites
\* and profile is the active nav, whatever commands were issued, changeNav
\* with an unknown target included.
C15_NavIsKnown == phase = "ready" => dom.nav \in NavValues

\* C16: after initialization the video player is hidden exactly when the
\* active nav is profile.
C16_PlayerHiddenIffProfile ==
    Loaded => (dom.playerHidden <=> dom.nav = "profile")

\* a step of an explicit category selection
SelectStep == \E c \in MenuCategories : clickCategory(c)

\* C17: the category marked active is the one most recently selected
\* explicitly, or "action" when home is entered with none selected: a
\* selection marks its category, nothing else changes the mark except the
\* fallback on entering home, and home is never active without a marked
\* category.  Visits to trending, favorites or profile change nothing of it.
C17_HomeShowsLastSelected ==
    [][/\ \A c \in MenuCategories : clickCategory(c) => dom'.cat = c
       /\ (dom'.cat # dom.cat /\ ~SelectStep) =>
             (dom.cat = None /\ dom'.cat = "action" /\ dom'.nav = "home")
       /\ dom'.nav = "home" => dom'.cat \in MenuCategories]_vars

\* C17 witness: "drama" was selected, the profile view visited and the settings
\* saved, and home is back on "drama"
C17_Witness ==
    /\ dom.nav = "home"
    /\ dom.cat = "drama"
    /\ dom.movies.kind = "category"
    /\ alert = "saved"

\* C18: after changeNav to a target other than home, no category is marked
\* active.
C18_LeavingHomeClearsCategory ==
    [][\A nav \in NavTargets \ {"home"} : clickNav(nav) => dom'.cat = None]_vars

\* C19: when the fetch fails, the catalog and the translation table stay empty
\* and initialization still completes: preferences and favorites are loaded
\* from storage, home is the active nav and an error notice is shown.
C19_FetchFailureStillInitializes ==
    [][(initializeApp /\ ~file.ok) =>
          /\ videos' = EmptyCatalog
          /\ translations' = {}
          /\ Preferences(currentSettings') = Preferences(loadSettings(storage.userSettings))
          /\ favorites' = loadFavorites(storage.favorites)
          /\ phase' = "ready"
          /\ dom'.nav = "home"
          /\ alert' = "Error:json"]_vars

\* C20: a command handler run before the fetch has answered and initialization
\* has run changes neither favorites, nor the preferences, nor the active nav,
\* the marked category or the playing movie, nor storage.
C20_NoCommandBeforeLoad ==
    [][(phase \in {"boot", "fetching"} /\ phase' = phase) =>
          /\ favorites' = favorites
          /\ currentSettings' = currentSettings
          /\ currentPlayingMovie' = currentPlayingMovie
          /\ storage' = storage
          /\ dom'.nav = dom.nav
          /\ dom'.cat = dom.cat]_vars

\* C21: the user identifier is generated at most once: the session's userId is
\* the value stored under 'localUserId' in every state, the stored value being
\* the one found at startup, or the generated one written when the key was
\* absent.
C21_UserIdIsStoredId ==
    Alive => (storage.localUserId # NoItem /\ userId = storage.localUserId.raw)

\* C22: after initialization, every movie card shown in the movie list carries
\* the favorited marker exactly when its id is in favorites, whatever command
\* ran last, toggleFavorite under the home or trending nav included.
C22_CardsShowFavorites ==
    Loaded =>
       \A i \in 1..Len(dom.movies.cards) :
          dom.movies.cards[i].fav <=> Contains(favorites, dom.movies.cards[i].id)

\* C23: whenever the catalog holds movies, id assignment has run on it: every
\* movie a card is rendered from, and every movie findMovieById, playVideo or
\* toggleFavorite reads the id of, has the id of its category and position.
C23_IdsAssignedBeforeRead ==
    /\ \A p \in Positions(videos) : videos.at[p[1]][p[2]].id = VideoId(p[1], p[2] - 1)
    /\ \A i \in 1..Len(dom.movies.cards) : dom.movies.cards[i].id # Undefined
    /\ currentPlayingMovie # null => currentPlayingMovie.id # Undefined

\* C25: whenever saveSettings shows its error notice, the text stored under
\* 'userSettings', the in-memory preferences and the active nav are what they
\* were before the command, whatever the translation table holds.
C25_ErrorMeansNothingSaved ==
    (Alive /\ FormShown) =>
       \A form \in FormValues :
          LET r == savedSettings(form)
          IN (build = "A" /\ r.alert = "Error:save") =>
                /\ r.storage.userSettings = storage.userSettings
                /\ Preferences(r.settings) = Preferences(currentSettings)
                /\ r.dom.nav = dom.nav

\* C24: with the script of build A loaded and window.db absent, the
\* DOMContentLoaded event eventually has initializeApp invoked, with no other
\* caller.
C24_ClosingBlockStartsApp ==
    (build = "A" /\ ~window.db /\ phase = "boot") ~> (phase # "boot")

====
